---- MODULE Spec2Model ----
(***************************************************************************)
(* Model of the two entry points of the Trail Guide Agent repository:      *)
(*   - src/agents/trail_guide_agent/trail_guide_agent.py (the provisioner) *)
(*   - src/tests/interact_with_agent.py (the interactive chat client)      *)
(* One run of one script is one behaviour.  Remote services, the terminal  *)
(* and the process environment are modelled as inputs drawn from small     *)
(* sets.  Python's None is the empty tuple, a present value v is <<v>>.    *)
(* KeyboardInterrupt is delivered where the loop blocks: in input() and in *)
(* the chat-completion call.                                               *)
(***************************************************************************)
EXTENDS Integers, Sequences, FiniteSets, TLC

VARIABLES script, env, pc, failure, project_client, definition, model_name,
          messages, event, line, user_input, request, response, calls, turns,
          output, error_text, sys_exit, exit_status, created

vars == <<script, env, pc, failure, project_client, definition, model_name,
          messages, event, line, user_input, request, response, calls, turns,
          output, error_text, sys_exit, exit_status, created>>

-----------------------------------------------------------------------------
(* Bounds *)

\* longest terminal line built from Alphabet
MaxLen == 2

\* most turns (inputs that are sent to the model) in one session
MaxTurns == 2

-----------------------------------------------------------------------------
(* Values *)

None == <<>>

Some(v) == <<v>>

\* Python truthiness of an Optional[str]: None and "" are falsy
Truthy(x) == x # None /\ x[1] # ""

\* Python `x or y`
PyOr(x, y) == IF Truthy(x) THEN x ELSE y

RECURSIVE Strs(_, _)
\* every string of at most n characters over the alphabet
Strs(alphabet, n) ==
    IF n = 0 THEN {""}
    ELSE LET p == Strs(alphabet, n - 1)
         IN  p \cup {s \o c : s \in p, c \in alphabet}

\* `needle in text`
Contains(text, needle) ==
    \E i \in 1..(Len(text) - Len(needle) + 1) :
        SubSeq(text, i, i + Len(needle) - 1) = needle

Whitespace == {" ", "\t"}

RECURSIVE LStrip(_)
LStrip(s) ==
    IF s = "" THEN ""
    ELSE IF SubSeq(s, 1, 1) \in Whitespace THEN LStrip(SubSeq(s, 2, Len(s)))
    ELSE s

RECURSIVE RStrip(_)
RStrip(s) ==
    IF s = "" THEN ""
    ELSE IF SubSeq(s, Len(s), Len(s)) \in Whitespace
         THEN RStrip(SubSeq(s, 1, Len(s) - 1))
    ELSE s

\* str.strip()
Strip(s) == RStrip(LStrip(s))

UpperLetters == "ABCDEFGHIJKLMNOPQRSTUVWXYZ"

LowerLetters == "abcdefghijklmnopqrstuvwxyz"

LowerChar(c) ==
    IF \E i \in 1..26 : SubSeq(UpperLetters, i, i) = c
    THEN LET i == CHOOSE j \in 1..26 : SubSeq(UpperLetters, j, j) = c
         IN  SubSeq(LowerLetters, i, i)
    ELSE c

RECURSIVE Lower(_)
\* str.lower()
Lower(s) ==
    IF s = "" THEN ""
    ELSE LowerChar(SubSeq(s, 1, 1)) \o Lower(SubSeq(s, 2, Len(s)))

RECURSIVE Join(_, _)
\* sep.join(names)
Join(names, sep) ==
    IF names = <<>> THEN ""
    ELSE IF Len(names) = 1 THEN names[1]
    ELSE names[1] \o sep \o Join(Tail(names), sep)

-----------------------------------------------------------------------------
(* Configuration *)

EnvNames == {"AZURE_AI_PROJECT_ENDPOINT", "AZURE_OPENAI_ENDPOINT", "AGENT_NAME",
             "MODEL_DEPLOYMENT", "AZURE_OPENAI_DEPLOYMENT", "MODEL_NAME"}

\* a variable is absent, set to the empty string, or set to a value of its own
EnvValue(name, how) ==
    IF how = "absent" THEN None
    ELSE IF how = "empty" THEN Some("")
    ELSE Some("<" \o name \o ">")

Envs == {[n \in EnvNames |-> EnvValue(n, h[n])] :
            h \in [EnvNames -> {"absent", "empty", "value"}]}

\* os.getenv(name)
getenv(e, name) == e[name]

\* os.getenv(name, default)
getenv_default(e, name, default) == IF e[name] = None THEN Some(default) ELSE e[name]

env_file == "<repo_root>/.env"

required_vars(s) ==
    IF s = "chat"
    THEN <<"AZURE_AI_PROJECT_ENDPOINT", "AZURE_OPENAI_ENDPOINT", "AGENT_NAME">>
    ELSE <<"AZURE_AI_PROJECT_ENDPOINT", "AGENT_NAME">>

\* a variant that reports only the variables that are absent
missing_vars_absent_only(e, s) ==
    SelectSeq(required_vars(s), LAMBDA name : getenv(e, name) = None)

\* [name for name in required_vars if not os.getenv(name)]
missing_vars(e, s) ==
    SelectSeq(required_vars(s), LAMBDA name : ~Truthy(getenv(e, name)))

missing_message(missing) ==
    "Missing required environment variable(s): " \o Join(missing, ", ")
        \o ". Expected .env at: " \o env_file

RemoteOps == {"agents.get", "agents.create_version", "chat.completions.create"}

Init ==
    /\ script \in {"chat", "provisioner"}
    /\ env \in Envs
    /\ pc = "loaded"
    /\ failure = None
    /\ project_client = "none"
    /\ definition = None
    /\ model_name = None
    /\ messages = <<>>
    /\ event = "start"
    /\ line = None
    /\ user_input = None
    /\ request = None
    /\ response = None
    /\ calls = [op \in RemoteOps |-> 0]
    /\ turns = 0
    /\ output = <<>>
    /\ error_text = None
    /\ sys_exit = None
    /\ exit_status = None
    /\ created = None

\* the required-variable check both scripts run at module level
CheckRequired ==
    /\ pc = "loaded"
    /\ LET missing == missing_vars(env, script)
       IN  IF missing # <<>>
           THEN /\ failure' = Some(missing_message(missing))
                /\ exit_status' = Some(1)
                /\ pc' = "exited"
           ELSE /\ pc' = IF script = "chat" THEN "client" ELSE "prompt_file"
                /\ UNCHANGED <<failure, exit_status>>
    /\ UNCHANGED <<script, env, project_client, definition, model_name, messages,
                   event, line, user_input, request, response, calls, turns,
                   output, error_text, sys_exit, created>>

-----------------------------------------------------------------------------
(* Remote collaborators *)

\* model identifiers the latest agent definition may carry
DefinitionModels == {"gpt-4.1", "gpt-4o-mini"}

AgentInstructions == {"You are a trail guide."}

AgentVersions == {"3"}

\* contents of prompts/v2_instructions.txt
PromptFiles == {"You are a trail guide.", "  You are a trail guide.\t ", ""}

\* str(e) of what a remote call or input() may raise
ErrorTexts == {"Error code: 404 - {'error': {'code': 'DeploymentNotFound'}}",
               "DeploymentNotFound",
               "Error code: 404",
               "error code: 404",
               "Connection error."}

EOFErrorText == "EOF when reading a line"

\* message.content of the first choice: absent, empty or text
ReplyContents == {None, Some(""), Some("Try the ridge trail.")}

-----------------------------------------------------------------------------
(* Both scripts: the project client *)

\* AIProjectClient(endpoint=..., credential=...)
OpenClient ==
    /\ pc = "client"
    /\ project_client' = "open"
    /\ pc' = IF script = "chat" THEN "get_agent" ELSE "create"
    /\ UNCHANGED <<script, env, failure, definition, model_name, messages, event,
                   line, user_input, request, response, calls, turns, output,
                   error_text, sys_exit, exit_status, created>>

-----------------------------------------------------------------------------
(* Provisioner *)

\* instructions = f.read().strip()
ReadPrompt ==
    /\ pc = "prompt_file"
    /\ \E content \in PromptFiles :
        definition' = Some([model |-> getenv_default(env, "MODEL_NAME", "gpt-4.1")[1],
                            instructions |-> Strip(content)])
    /\ pc' = "client"
    /\ UNCHANGED <<script, env, failure, project_client, model_name, messages,
                   event, line, user_input, request, response, calls, turns,
                   output, error_text, sys_exit, exit_status, created>>

\* project_client.agents.create_version(...) returns; the result is printed
CreateVersion ==
    /\ pc = "create"
    /\ calls' = [calls EXCEPT !["agents.create_version"] = @ + 1]
    /\ \E version \in AgentVersions :
        /\ created' = Some([name |-> getenv(env, "AGENT_NAME")[1],
                            version |-> version,
                            definition |-> definition[1]])
        /\ output' = Append(output, "Agent created (id: " \o getenv(env, "AGENT_NAME")[1]
                                        \o ":" \o version \o ", name: "
                                        \o getenv(env, "AGENT_NAME")[1]
                                        \o ", version: " \o version \o ")")
    /\ event' = "reply"
    /\ exit_status' = Some(0)
    /\ pc' = "exited"
    /\ UNCHANGED <<script, env, failure, project_client, definition, model_name,
                   messages, line, user_input, request, response, turns,
                   error_text, sys_exit>>

\* project_client.agents.create_version(...) raises; nothing catches it
CreateVersionFails ==
    /\ pc = "create"
    /\ calls' = [calls EXCEPT !["agents.create_version"] = @ + 1]
    /\ \E text \in ErrorTexts : failure' = Some(text)
    /\ event' = "error"
    /\ exit_status' = Some(1)
    /\ pc' = "exited"
    /\ UNCHANGED <<script, env, project_client, definition, model_name, messages,
                   line, user_input, request, response, turns, output, error_text,
                   sys_exit, created>>

-----------------------------------------------------------------------------
(* Chat client: set-up *)

\* a variant that consults MODEL_NAME before AZURE_OPENAI_DEPLOYMENT
resolve_model_swapped(e, default) ==
    PyOr(getenv(e, "MODEL_DEPLOYMENT"),
         PyOr(getenv(e, "MODEL_NAME"),
              PyOr(getenv(e, "AZURE_OPENAI_DEPLOYMENT"), Some(default))))

\* os.getenv("MODEL_DEPLOYMENT") or os.getenv("AZURE_OPENAI_DEPLOYMENT")
\*   or os.getenv("MODEL_NAME") or definition.model
resolve_model(e, default) ==
    PyOr(getenv(e, "MODEL_DEPLOYMENT"),
         PyOr(getenv(e, "AZURE_OPENAI_DEPLOYMENT"),
              PyOr(getenv(e, "MODEL_NAME"), Some(default))))

Rule == "============================================================"

Banner(agent_name, version, model) ==
    << "\n" \o Rule,
       "Trail Guide Agent - Interactive Chat",
       "Agent: " \o agent_name \o " (version: " \o version \o ")",
       "Model: " \o model,
       Rule,
       "\nType your questions or requests. Type 'exit' or 'quit' to end the session.\n",
       "Started conversation.\n" >>

\* agents.get returns: the model is resolved, the chat client is built, the
\* transcript is seeded and the banner is printed
GetAgent ==
    /\ pc = "get_agent"
    /\ calls' = [calls EXCEPT !["agents.get"] = @ + 1]
    /\ \E model \in DefinitionModels, instructions \in AgentInstructions,
          version \in AgentVersions :
        /\ definition' = Some([model |-> model, instructions |-> instructions])
        /\ model_name' = resolve_model(env, model)
        /\ messages' = <<[role |-> "system", content |-> instructions]>>
        /\ output' = output \o Banner(getenv_default(env, "AGENT_NAME", "trail-guide")[1],
                                      version, resolve_model(env, model)[1])
    /\ event' = "reply"
    /\ pc' = "prompt"
    /\ UNCHANGED <<script, env, failure, project_client, line, user_input, request,
                   response, turns, error_text, sys_exit, exit_status, created>>

\* agents.get raises (unknown agent, no credentials): the call is outside the
\* try statement, so the exception ends the process
GetAgentFails ==
    /\ pc = "get_agent"
    /\ calls' = [calls EXCEPT !["agents.get"] = @ + 1]
    /\ \E text \in ErrorTexts : failure' = Some(text)
    /\ event' = "error"
    /\ exit_status' = Some(1)
    /\ pc' = "exited"
    /\ UNCHANGED <<script, env, project_client, definition, model_name, messages,
                   line, user_input, request, response, turns, output, error_text,
                   sys_exit, created>>

-----------------------------------------------------------------------------
(* Chat client: the loop *)

Alphabet == {" ", "q"}

\* lines the operator may type: every short line over Alphabet, and some words
Lines == Strs(Alphabet, MaxLen)
            \cup {"exit", "QUIT", " Quit\t", "Q", "\t", " exit now "}

ExitKeywords == {"exit", "quit", "q"}

\* a variant that does not trim
NoStrip(s) == s

\* input("You: ").strip()
read_input(l) == Strip(l)

\* a variant that compares the input with the keywords as typed
loop_branch_case_sensitive(user_text) ==
    IF user_text = "" THEN "continue"
    ELSE IF user_text \in ExitKeywords THEN "break"
    ELSE "send"

\* what one iteration does with the trimmed input
loop_branch(user_text) ==
    IF user_text = "" THEN "continue"
    ELSE IF Lower(user_text) \in ExitKeywords THEN "break"
    ELSE "send"

\* a variant that leaves an absent reply content absent
reply_text_keep_none(content) == IF content = None THEN "None" ELSE content[1]

\* response.choices[0].message.content or ""
reply_text(content) == PyOr(content, Some(""))[1]

\* a variant that recognises the deployment code only
is_not_found_code_only(text) == Contains(text, "DeploymentNotFound")

\* "DeploymentNotFound" in error_text or "Error code: 404" in error_text
is_not_found(text) ==
    Contains(text, "DeploymentNotFound") \/ Contains(text, "Error code: 404")

Remediation(model) ==
    << "\nError: Model deployment not found.",
       "Requested model/deployment: " \o model,
       "Target endpoint: AZURE_OPENAI_ENDPOINT",
       "\nFix:",
       "1) Deploy a chat model in your AI Services account.",
       "2) Set MODEL_DEPLOYMENT in .env to that deployment name.",
       "3) Re-run this test script." >>

\* a variant that appends the input before looking at it
InputEmptyAppends ==
    /\ pc = "prompt"
    /\ \E l \in Lines :
        /\ loop_branch(read_input(l)) = "continue"
        /\ line' = Some(l)
        /\ user_input' = Some(read_input(l))
        /\ messages' = Append(messages, [role |-> "user", content |-> read_input(l)])
    /\ event' = "line"
    /\ UNCHANGED <<script, env, pc, failure, project_client, definition, model_name,
                   request, response, calls, turns, output, error_text, sys_exit,
                   exit_status, created>>

\* input() returns a line that is empty once trimmed: continue
InputEmpty ==
    /\ pc = "prompt"
    /\ \E l \in Lines :
        /\ loop_branch(read_input(l)) = "continue"
        /\ line' = Some(l)
        /\ user_input' = Some(read_input(l))
    /\ event' = "line"
    /\ UNCHANGED <<script, env, pc, failure, project_client, definition, model_name,
                   messages, request, response, calls, turns, output, error_text,
                   sys_exit, exit_status, created>>

\* input() returns an exit keyword: farewell and break
InputExit ==
    /\ pc = "prompt"
    /\ \E l \in Lines :
        /\ loop_branch(read_input(l)) = "break"
        /\ line' = Some(l)
        /\ user_input' = Some(read_input(l))
    /\ event' = "line"
    /\ output' = Append(output, "\nEnding session. Goodbye!")
    /\ pc' = "finally"
    /\ UNCHANGED <<script, env, failure, project_client, definition, model_name,
                   messages, request, response, calls, turns, error_text, sys_exit,
                   exit_status, created>>

\* input() returns anything else: the user entry is appended and the
\* chat-completion call is issued with the whole transcript
InputSend ==
    /\ pc = "prompt"
    /\ turns < MaxTurns
    /\ \E l \in Lines :
        /\ loop_branch(read_input(l)) = "send"
        /\ line' = Some(l)
        /\ user_input' = Some(read_input(l))
        /\ messages' = Append(messages, [role |-> "user", content |-> read_input(l)])
    /\ event' = "line"
    /\ request' = Some([model |-> model_name[1], messages |-> messages'])
    /\ calls' = [calls EXCEPT !["chat.completions.create"] = @ + 1]
    /\ turns' = turns + 1
    /\ pc' = "calling"
    /\ UNCHANGED <<script, env, failure, project_client, definition, model_name,
                   response, output, error_text, sys_exit, exit_status, created>>

\* the chat-completion call returns: the assistant entry is appended and printed
ChatReply ==
    /\ pc = "calling"
    /\ \E content \in ReplyContents :
        /\ response' = Some(content)
        /\ messages' = Append(messages, [role |-> "assistant",
                                         content |-> reply_text(content)])
        /\ output' = Append(output, "\nAgent: " \o reply_text(content) \o "\n")
    /\ event' = "reply"
    /\ pc' = "prompt"
    /\ UNCHANGED <<script, env, failure, project_client, definition, model_name,
                   line, user_input, request, calls, turns, error_text, sys_exit,
                   exit_status, created>>

\* except Exception as e: ... sys.exit(1)
HandleException(text) ==
    /\ error_text' = Some(text)
    /\ output' = IF is_not_found(text)
                 THEN output \o Remediation(model_name[1])
                 ELSE Append(output, "\nError: " \o text)
    /\ event' = "error"
    /\ sys_exit' = Some(1)
    /\ pc' = "finally"
    /\ UNCHANGED <<script, env, failure, project_client, definition, model_name,
                   messages, line, user_input, request, response, calls, turns,
                   exit_status, created>>

\* a variant that issues the failed call once more
ChatErrorRetries ==
    /\ pc = "calling"
    /\ calls["chat.completions.create"] <= MaxTurns
    /\ calls' = [calls EXCEPT !["chat.completions.create"] = @ + 1]
    /\ event' = "error"
    /\ UNCHANGED <<script, env, pc, failure, project_client, definition, model_name,
                   messages, line, user_input, request, response, turns, output,
                   error_text, sys_exit, exit_status, created>>

\* the chat-completion call raises
ChatError ==
    /\ pc = "calling"
    /\ \E text \in ErrorTexts : HandleException(text)

\* input() raises EOFError (standard input is closed)
InputError ==
    /\ pc = "prompt"
    /\ HandleException(EOFErrorText)

InterruptedFarewell == "\n\nSession interrupted. Goodbye!"

\* except KeyboardInterrupt, raised in input() or in the call in flight
Interrupt ==
    /\ pc \in {"prompt", "calling"}
    /\ event' = "interrupt"
    /\ output' = Append(output, InterruptedFarewell)
    /\ pc' = "finally"
    /\ UNCHANGED <<script, env, failure, project_client, definition, model_name,
                   messages, line, user_input, request, response, calls, turns,
                   error_text, sys_exit, exit_status, created>>

\* a variant in which every session ends with status 0
exit_code_always_zero(pending) == 0

\* the status the process ends with: sys.exit(1) when pending, else 0
exit_code(pending) == IF pending = None THEN 0 ELSE pending[1]

\* finally: project_client.close(); then the process ends
Finally ==
    /\ pc = "finally"
    /\ project_client' = "closed"
    /\ exit_status' = Some(exit_code(sys_exit))
    /\ pc' = "exited"
    /\ UNCHANGED <<script, env, failure, definition, model_name, messages, event,
                   line, user_input, request, response, calls, turns, output,
                   error_text, sys_exit, created>>

-----------------------------------------------------------------------------
(* Specifications *)

\* the start-up of both scripts, up to the first prompt or the end of the run
NextConfig ==
    \/ CheckRequired
    \/ OpenClient
    \/ ReadPrompt
    \/ CreateVersion
    \/ CreateVersionFails
    \/ GetAgent
    \/ GetAgentFails

Next ==
    \/ NextConfig
    \/ InputEmpty
    \/ InputExit
    \/ InputSend
    \/ ChatReply
    \/ ChatError
    \/ InputError
    \/ Interrupt
    \/ Finally

\* every configuration of the six variables, for the start-up
SpecConfig == Init /\ [][NextConfig]_vars

OverrideNames == {"MODEL_DEPLOYMENT", "AZURE_OPENAI_DEPLOYMENT", "MODEL_NAME"}

\* configurations under which whole sessions are explored: no override, a
\* deployment override, and an empty override ahead of a model-name override
SessionEnvs ==
    {e \in Envs :
        /\ \A n \in EnvNames \ OverrideNames : Truthy(e[n])
        /\ \/ \A n \in OverrideNames : e[n] = None
           \/ /\ Truthy(e["MODEL_DEPLOYMENT"])
              /\ e["AZURE_OPENAI_DEPLOYMENT"] = None
              /\ e["MODEL_NAME"] = None
           \/ /\ e["MODEL_DEPLOYMENT"] = Some("")
              /\ e["AZURE_OPENAI_DEPLOYMENT"] = None
              /\ Truthy(e["MODEL_NAME"])}

InitSession == Init /\ env \in SessionEnvs

Spec == InitSession /\ [][Next]_vars
-----------------------------------------------------------------------------
(* Vocabulary of the properties, stated without the operators of the model *)

CharAt(s, k) == SubSeq(s, k, k)

IsBlank(c) == c = " " \/ c = "\t"

\* t is l without its leading and trailing blanks
TrimOf(t, l) ==
    \E i \in 1..(Len(l) + 1) : \E j \in (i - 1)..Len(l) :
        /\ SubSeq(l, i, j) = t
        /\ \A k \in 1..(i - 1) : IsBlank(CharAt(l, k))
        /\ \A k \in (j + 1)..Len(l) : IsBlank(CharAt(l, k))
        /\ j >= i => ~IsBlank(CharAt(l, i)) /\ ~IsBlank(CharAt(l, j))

Trimmed(l) ==
    CHOOSE t \in {SubSeq(l, i, j) : i \in 1..(Len(l) + 1), j \in 0..Len(l)} :
        TrimOf(t, l)

\* a and b are the same word up to letter case
SameWord(a, b) ==
    /\ Len(a) = Len(b)
    /\ \A k \in 1..Len(a) :
        \/ CharAt(a, k) = CharAt(b, k)
        \/ \E i \in 1..26 :
            {CharAt(a, k), CharAt(b, k)} = {CharAt(UpperLetters, i), CharAt(LowerLetters, i)}

IsExitLine(l) == \E kw \in {"exit", "quit", "q"} : SameWord(Trimmed(l), kw)

IsEmptyLine(l) == Trimmed(l) = ""

IsNormalLine(l) == ~IsEmptyLine(l) /\ ~IsExitLine(l)

\* the step reads a line from the terminal
ReadsLine == pc = "prompt" /\ event' = "line" /\ line' # None

Last(s) == s[Len(s)]

FirstIndex(text, needle) ==
    CHOOSE i \in 1..Len(text) :
        /\ SubSeq(text, i, i + Len(needle) - 1) = needle
        /\ \A k \in 1..(i - 1) : SubSeq(text, k, k + Len(needle) - 1) # needle

IndexIn(seq, x) == CHOOSE i \in 1..Len(seq) : seq[i] = x

UserEntries == {i \in 1..Len(messages) : messages[i].role = "user"}

InLoop == script = "chat" /\ messages # <<>>

-----------------------------------------------------------------------------
(* C1 *)

Given(n) == env[n] # None /\ env[n] # Some("")

\* C1 as stated: when the chat client reaches its first prompt, the model is
\* the first of MODEL_DEPLOYMENT, AZURE_OPENAI_DEPLOYMENT, MODEL_NAME that is
\* set, whatever its value, else the definition's model.
C1_FirstSetValue ==
    (script = "chat" /\ pc = "prompt") =>
        model_name =
            IF env["MODEL_DEPLOYMENT"] # None THEN env["MODEL_DEPLOYMENT"]
            ELSE IF env["AZURE_OPENAI_DEPLOYMENT"] # None THEN env["AZURE_OPENAI_DEPLOYMENT"]
            ELSE IF env["MODEL_NAME"] # None THEN env["MODEL_NAME"]
            ELSE Some(definition[1].model)

\* C1 amended: when the chat client reaches its first prompt, the model is the
\* first of MODEL_DEPLOYMENT, AZURE_OPENAI_DEPLOYMENT, MODEL_NAME that is set
\* to a non-empty value, else the definition's model, and the banner prints it.
C1_FirstNonEmptyValue ==
    (script = "chat" /\ pc = "prompt") =>
        LET expected ==
                IF Given("MODEL_DEPLOYMENT") THEN env["MODEL_DEPLOYMENT"][1]
                ELSE IF Given("AZURE_OPENAI_DEPLOYMENT") THEN env["AZURE_OPENAI_DEPLOYMENT"][1]
                ELSE IF Given("MODEL_NAME") THEN env["MODEL_NAME"][1]
                ELSE definition[1].model
        IN  /\ model_name = Some(expected)
            /\ \E i \in 1..Len(output) : output[i] = "Model: " \o expected

\* an empty MODEL_DEPLOYMENT is passed over and MODEL_NAME decides
C1_Witness ==
    /\ script = "chat" /\ pc = "prompt"
    /\ env["MODEL_DEPLOYMENT"] = Some("")
    /\ env["AZURE_OPENAI_DEPLOYMENT"] = None
    /\ Given("MODEL_NAME")
    /\ model_name = env["MODEL_NAME"]

-----------------------------------------------------------------------------
(* C2 *)

\* C2: a turn whose input is neither empty nor an exit keyword appends the
\* user entry holding the trimmed input when the call is issued, and, when the
\* call returns, the assistant entry holding the reply content, the empty
\* string when the content is absent; nothing else is appended.
C2_TurnAppendsUserThenAssistant ==
    [][ /\ (ReadsLine /\ IsNormalLine(line'[1])) =>
              /\ pc' = "calling"
              /\ messages' = Append(messages,
                                    [role |-> "user", content |-> Trimmed(line'[1])])
        /\ (pc = "calling" /\ pc' = "prompt") =>
              /\ line' = line
              /\ Last(messages) = [role |-> "user", content |-> Trimmed(line[1])]
              /\ messages' = Append(messages,
                    [role |-> "assistant",
                     content |-> IF response'[1] = None THEN "" ELSE response'[1][1]])
      ]_vars

\* a padded input was sent and the reply had no content
C2_Witness ==
    /\ pc = "prompt" /\ event = "reply"
    /\ line = Some(" exit now ")
    /\ response = Some(None)
    /\ Len(messages) = 3
    /\ messages[2] = [role |-> "user", content |-> "exit now"]
    /\ messages[3] = [role |-> "assistant", content |-> ""]

-----------------------------------------------------------------------------
(* C3 *)

\* C3: reading a line that is an exit keyword once trimmed, in any letter
\* case, ends the loop with the transcript, the call count and the last
\* request unchanged and no error pending.
C3_ExitKeywordEndsLoop ==
    [][ (ReadsLine /\ IsExitLine(line'[1])) =>
            /\ pc' = "finally"
            /\ messages' = messages
            /\ calls' = calls
            /\ request' = request
            /\ sys_exit' = None /\ error_text' = None
      ]_vars

\* an upper-case keyword ends a session that has had two turns
C3_Witness ==
    /\ pc = "finally" /\ event = "line"
    /\ line = Some("QUIT")
    /\ turns >= 2
    /\ Len(messages) = 1 + 2 * turns
    /\ calls["chat.completions.create"] = turns

-----------------------------------------------------------------------------
(* C4 *)

\* C4: whenever the chat client's process has ended after opening the project
\* client, the client has been closed.
C4_ClientClosedOnEveryExit ==
    (script = "chat" /\ pc = "exited" /\ project_client # "none") =>
        project_client = "closed"

-----------------------------------------------------------------------------
(* C5 *)

\* C5: a session that entered the loop ends with status 1 when an exception
\* other than an interrupt ended it and with status 0 otherwise; an interrupt,
\* also one that arrives while a call is in flight, prints the farewell and
\* leaves no error.
C5_ExitStatus ==
    (InLoop /\ pc = "exited") =>
        /\ exit_status = Some(IF event = "error" THEN 1 ELSE 0)
        /\ event \in {"line", "interrupt", "error"}
        /\ event = "line" => IsExitLine(line[1])
        /\ event = "interrupt" =>
              /\ Last(output) = "\n\nSession interrupted. Goodbye!"
              /\ error_text = None
              /\ \A i \in 1..Len(output) : ~Contains(output[i], "Error")

\* the interrupt arrived while a call was in flight
C5_Witness ==
    /\ InLoop /\ pc = "exited" /\ event = "interrupt"
    /\ Last(messages).role = "user"
    /\ exit_status = Some(0)
    /\ project_client = "closed"

-----------------------------------------------------------------------------
(* C6 *)

RemediationPrinted ==
    /\ \E i \in 1..Len(output) : output[i] = "\nError: Model deployment not found."
    /\ \E i \in 1..Len(output) :
            output[i] = "Requested model/deployment: " \o model_name[1]

\* C6: once an exception other than an interrupt has ended the loop, the
\* remediation block naming the requested model has been printed exactly when
\* the error text contains "DeploymentNotFound" or "Error code: 404", the raw
\* error text has been printed otherwise, the process ends with status 1 and
\* no further chat-completion call is issued.
C6_ErrorReport ==
    /\ [](error_text # None =>
            LET text == error_text[1]
                recognised == \/ Contains(text, "DeploymentNotFound")
                              \/ Contains(text, "Error code: 404")
            IN  /\ RemediationPrinted <=> recognised
                /\ ~recognised => Last(output) = "\nError: " \o text
                /\ recognised => \A i \in 1..Len(output) : output[i] # "\nError: " \o text
                /\ pc \in {"finally", "exited"}
                /\ pc = "exited" => exit_status = Some(1))
    /\ [][error_text # None => calls' = calls /\ request' = request]_vars

\* a failed call whose text carries the status code only
C6_Witness ==
    /\ pc = "exited"
    /\ error_text = Some("Error code: 404")
    /\ RemediationPrinted
    /\ exit_status = Some(1)
    /\ calls["chat.completions.create"] = 1

-----------------------------------------------------------------------------
(* C7 *)

Absent(n) == env[n] = None \/ env[n] = Some("")

RequiredNames ==
    IF script = "chat"
    THEN <<"AZURE_AI_PROJECT_ENDPOINT", "AZURE_OPENAI_ENDPOINT", "AGENT_NAME">>
    ELSE <<"AZURE_AI_PROJECT_ENDPOINT", "AGENT_NAME">>

\* C7: in both scripts, when a required variable is absent or empty the run
\* ends at the check: no client is constructed, no remote call is issued, and
\* the failure message names the missing required variables, those only, in
\* declaration order, and the expected path of the configuration file.
C7_AbortBeforeRemoteCall ==
    ((\E k \in 1..Len(RequiredNames) : Absent(RequiredNames[k])) /\ pc # "loaded") =>
        /\ pc = "exited"
        /\ exit_status = Some(1)
        /\ project_client = "none"
        /\ \A op \in DOMAIN calls : calls[op] = 0
        /\ definition = None /\ created = None /\ messages = <<>>
        /\ failure # None
        /\ \A k \in 1..Len(RequiredNames) :
                Contains(failure[1], RequiredNames[k]) <=> Absent(RequiredNames[k])
        /\ \A k1, k2 \in 1..Len(RequiredNames) :
                (k1 < k2 /\ Absent(RequiredNames[k1]) /\ Absent(RequiredNames[k2])) =>
                    FirstIndex(failure[1], RequiredNames[k1])
                        < FirstIndex(failure[1], RequiredNames[k2])
        /\ Contains(failure[1], "<repo_root>/.env")

\* the chat client with one variable empty and a later one absent
C7_Witness ==
    /\ script = "chat" /\ pc = "exited"
    /\ Given("AZURE_AI_PROJECT_ENDPOINT")
    /\ env["AZURE_OPENAI_ENDPOINT"] = Some("")
    /\ env["AGENT_NAME"] = None
    /\ failure = Some("Missing required environment variable(s): "
                        \o "AZURE_OPENAI_ENDPOINT, AGENT_NAME"
                        \o ". Expected .env at: <repo_root>/.env")

-----------------------------------------------------------------------------
(* C8 *)

\* C8: the chat client has issued one chat-completion call for each input that
\* was neither empty nor an exit keyword, no call follows a failed one, and
\* each script issues its set-up call (get agent, create agent version) at
\* most once.
C8_OneCallPerTurn ==
    /\ [](/\ calls["chat.completions.create"] = turns
          /\ calls["chat.completions.create"] = Cardinality(UserEntries)
          /\ calls["agents.create_version"] <= 1
          /\ calls["agents.get"] <= 1
          /\ script = "provisioner" =>
                calls["agents.get"] = 0 /\ calls["chat.completions.create"] = 0
          /\ script = "chat" => calls["agents.create_version"] = 0)
    /\ [][ /\ (ReadsLine /\ IsNormalLine(line'[1])) <=>
                calls'["chat.completions.create"] = calls["chat.completions.create"] + 1
           /\ calls'["chat.completions.create"] \in
                {calls["chat.completions.create"], calls["chat.completions.create"] + 1}
           /\ event = "error" => calls' = calls
         ]_vars

\* two calls were issued and the second one failed
C8_Witness ==
    /\ pc = "exited" /\ event = "error"
    /\ error_text = Some("Connection error.")
    /\ turns = 2
    /\ calls["chat.completions.create"] = 2
    /\ Len(messages) = 4

-----------------------------------------------------------------------------
(* C9 *)

\* C9: reading a line that is empty once trimmed leaves the transcript, the
\* call counts, the last request and the output unchanged, ends nothing, and
\* leaves the client at the prompt.
C9_EmptyInputIsNoOp ==
    [][ (ReadsLine /\ IsEmptyLine(line'[1])) =>
            /\ pc' = "prompt"
            /\ messages' = messages
            /\ calls' = calls
            /\ turns' = turns
            /\ request' = request
            /\ output' = output
            /\ UNCHANGED <<project_client, sys_exit, exit_status, error_text>>
      ]_vars

\* a blank line was read after one complete turn
C9_Witness ==
    /\ pc = "prompt" /\ event = "line"
    /\ line = Some(" ")
    /\ user_input = Some("")
    /\ Len(messages) = 3
    /\ calls["chat.completions.create"] = 1

-----------------------------------------------------------------------------
(* C10 *)

IsPrefix(s, t) == Len(s) <= Len(t) /\ SubSeq(t, 1, Len(s)) = s

\* C10: at every prompt the transcript is the system entry holding the
\* instructions followed by complete (user, assistant) pairs; entries are
\* only ever appended; every request carries the whole transcript, which ends
\* with a user entry.
C10_TranscriptShape ==
    /\ [](pc = "prompt" =>
            /\ Len(messages) % 2 = 1
            /\ messages[1] = [role |-> "system", content |-> definition[1].instructions]
            /\ \A i \in 2..Len(messages) :
                    messages[i].role = IF i % 2 = 0 THEN "user" ELSE "assistant")
    /\ [](pc = "calling" =>
            /\ request # None
            /\ request[1].messages = messages
            /\ request[1].model = model_name[1]
            /\ Last(messages).role = "user"
            /\ Len(messages) % 2 = 0)
    /\ [][messages # <<>> => IsPrefix(messages, messages')]_vars

\* the prompt after two complete turns
C10_Witness ==
    /\ pc = "prompt"
    /\ Len(messages) = 5
    /\ messages[4].role = "user" /\ messages[5].role = "assistant"
    /\ request # None /\ Len(request[1].messages) = 4

====
